---------------------------- MODULE Spec2Model ----------------------------
(***************************************************************************)
(* CellTinder: the centroid crop-and-pad engine (CellImageSet) and the     *)
(* threshold / selection backend (DataLoader driven by the histogram and   *)
(* cell-view controllers).                                                 *)
(*                                                                         *)
(* Numbers with a fractional part are kept as integers: ratios and         *)
(* threshold bounds in thousandths (0.3 is 300, the step 0.01 is 10),      *)
(* centroid coordinates in halves (2.5 is 5).                              *)
(***************************************************************************)
EXTENDS Integers, Sequences, FiniteSets, TLC

(***************************************************************************)
(* Bounds of the model.                                                    *)
(***************************************************************************)
\* largest height / width of a source array
MaxDim == 3
\* largest crop size
MaxSize == 3
\* how far (in pixels) a centroid may lie outside the source array
MaxOff == 4

Max(a, b) == IF a >= b THEN a ELSE b
Min(a, b) == IF a <= b THEN a ELSE b

\* an optional value: Python's None, or a value v
None == <<>>
Some(v) == <<v>>

(***************************************************************************)
(* 2D arrays: a shape (nr, nc) and the pixels, indexed from 0 as in numpy. *)
(* The shape is kept explicitly: an array with no rows still has columns.  *)
(***************************************************************************)
Pixels(nr, nc) == (0 .. nr - 1) \X (0 .. nc - 1)
Array(nr, nc, px) == [nr |-> nr, nc |-> nc, px |-> px]

\* an image filled with sequential values (every pixel non-zero)
SourceImage(h, w) ==
    LET v(r, c) == r * w + c + 1 IN Array(h, w, [p \in Pixels(h, w) |-> v(p[1], p[2])])

\* a mask holding two cell labels, 1 and 2, in a checkerboard
SourceMask(h, w) ==
    LET v(r, c) == ((r + c) % 2) + 1 IN Array(h, w, [p \in Pixels(h, w) |-> v(p[1], p[2])])

(***************************************************************************)
(* Python semantics used by the crop.                                      *)
(***************************************************************************)
\* int(v) of a float given in halves: truncation toward zero
IntOfHalves(v2) == IF v2 >= 0 THEN v2 \div 2 ELSE -((-v2) \div 2)

\* one bound of a slice a:b on an axis of length n (slice.indices)
SliceBound(i, n) == IF i < 0 THEN Max(i + n, 0) ELSE Min(i, n)

\* first index and length of the slice a:b on an axis of length n
SliceStart(a, b, n) == SliceBound(a, n)
SliceLen(a, b, n) == Max(SliceBound(b, n) - SliceBound(a, n), 0)

\* np.pad(arr, ((top, bottom), (left, right)), mode='constant', constant_values=0)
NpPad(arr, top, bottom, left, right) ==
    LET v(r, c) ==
            IF /\ r >= top /\ r < top + arr.nr
               /\ c >= left /\ c < left + arr.nc
            THEN arr.px[<<r - top, c - left>>]
            ELSE 0
    IN Array(arr.nr + top + bottom, arr.nc + left + right,
             [p \in Pixels(arr.nr + top + bottom, arr.nc + left + right) |-> v(p[1], p[2])])

(***************************************************************************)
(* crop.py: _pad_array and crop_array, the crop without mask isolation.    *)
(* The centroid (x, y) is given in halves.                                 *)
(***************************************************************************)
crop_pad_array(arr_shape, x_min, x_max, y_min, y_max, cropped) ==
    LET pad_top == IF y_min < 0 THEN 0 - y_min ELSE 0
        pad_left == IF x_min < 0 THEN 0 - x_min ELSE 0
        pad_bottom == IF y_max > arr_shape[1] THEN y_max - arr_shape[1] ELSE 0
        pad_right == IF x_max > arr_shape[2] THEN x_max - arr_shape[2] ELSE 0
    IN IF pad_top # 0 \/ pad_bottom # 0 \/ pad_left # 0 \/ pad_right # 0
       THEN NpPad(cropped, pad_top, pad_bottom, pad_left, pad_right)
       ELSE cropped

crop_array(array, cx2, cy2, size) ==
    LET half == size \div 2
        x_min == IntOfHalves(cx2) - half
        x_max == x_min + size
        y_min == IntOfHalves(cy2) - half
        y_max == y_min + size
        r0 == SliceStart(Max(y_min, 0), Min(y_max, array.nr), array.nr)
        nr == SliceLen(Max(y_min, 0), Min(y_max, array.nr), array.nr)
        c0 == SliceStart(Max(x_min, 0), Min(x_max, array.nc), array.nc)
        nc == SliceLen(Max(x_min, 0), Min(x_max, array.nc), array.nc)
        src(r, c) == array.px[<<r0 + r, c0 + c>>]
    IN crop_pad_array(<<array.nr, array.nc>>, x_min, x_max, y_min, y_max,
                      Array(nr, nc, [p \in Pixels(nr, nc) |-> src(p[1], p[2])]))

\* pad_array with the left padding taken from the row axis
pad_array_swapped(array, x_min, x_max, y_min, y_max, cell_mask_value) ==
    LET r0 == SliceStart(Max(y_min, 0), Min(y_max, array.nr), array.nr)
        nr == SliceLen(Max(y_min, 0), Min(y_max, array.nr), array.nr)
        c0 == SliceStart(Max(x_min, 0), Min(x_max, array.nc), array.nc)
        nc == SliceLen(Max(x_min, 0), Min(x_max, array.nc), array.nc)
        src(r, c) == array.px[<<r0 + r, c0 + c>>]
        iso(r, c) == IF cell_mask_value # None /\ src(r, c) # cell_mask_value[1]
                     THEN 0 ELSE src(r, c)
        pad_top == IF y_min < 0 THEN 0 - y_min ELSE 0
        pad_left == IF y_min < 0 THEN 0 - y_min ELSE 0
        pad_bottom == IF y_max > array.nr THEN y_max - array.nr ELSE 0
        pad_right == IF x_max > array.nc THEN x_max - array.nc ELSE 0
    IN NpPad(Array(nr, nc, [p \in Pixels(nr, nc) |-> iso(p[1], p[2])]), pad_top, pad_bottom, pad_left, pad_right)

(***************************************************************************)
(* CellImageSet._pad_array                                                 *)
(***************************************************************************)
pad_array(array, x_min, x_max, y_min, y_max, cell_mask_value) ==
    LET r0 == SliceStart(Max(y_min, 0), Min(y_max, array.nr), array.nr)
        nr == SliceLen(Max(y_min, 0), Min(y_max, array.nr), array.nr)
        c0 == SliceStart(Max(x_min, 0), Min(x_max, array.nc), array.nc)
        nc == SliceLen(Max(x_min, 0), Min(x_max, array.nc), array.nc)
        src(r, c) == array.px[<<r0 + r, c0 + c>>]
        iso(r, c) == IF cell_mask_value # None /\ src(r, c) # cell_mask_value[1]
                     THEN 0 ELSE src(r, c)
        cropped == Array(nr, nc, [p \in Pixels(nr, nc) |-> iso(p[1], p[2])])
        pad_top == IF y_min < 0 THEN 0 - y_min ELSE 0
        pad_left == IF x_min < 0 THEN 0 - x_min ELSE 0
        pad_bottom == IF y_max > array.nr THEN y_max - array.nr ELSE 0
        pad_right == IF x_max > array.nc THEN x_max - array.nc ELSE 0
    IN IF pad_top # 0 \/ pad_bottom # 0 \/ pad_left # 0 \/ pad_right # 0
       THEN NpPad(cropped, pad_top, pad_bottom, pad_left, pad_right)
       ELSE cropped

(***************************************************************************)
(* CellImageSet._box_array; the centroid (y, x) is given in halves.        *)
(***************************************************************************)
WindowMin(v2, crop_size) == IntOfHalves(v2) - crop_size \div 2

box_array(array, cy2, cx2, crop_size, cell_mask_value) ==
    LET x_min == WindowMin(cx2, crop_size)
        x_max == x_min + crop_size
        y_min == WindowMin(cy2, crop_size)
        y_max == y_min + crop_size
    IN pad_array(array, x_min, x_max, y_min, y_max, cell_mask_value)

(***************************************************************************)
(* CellImageSet: the frame files of one cell.  A path is a directory, a    *)
(* stem, a frame part (0 for none) and a suffix; the file system is the    *)
(* set of paths that exist.                                                *)
(***************************************************************************)
MaxFrames == 2

Path(dir, stem, frame, suffix) == [dir |-> dir, stem |-> stem, frame |-> frame, suffix |-> suffix]

\* the base paths of the tests, "images/001_measure.tif" and "masks/001_mask.tif"
pre_img_path == Path("images", "001_measure", 0, ".tif")
pre_mask_path == Path("masks", "001_mask", 0, ".tif")

\* f"{pre_file_path.stem}_{frame}{pre_file_path.suffix}" joined to the parent
FramePath(pre_file_path, frame) ==
    Path(pre_file_path.dir, pre_file_path.stem, frame, pre_file_path.suffix)

\* _build_file_path that skips the existence check
build_file_path_unchecked(fs, pre_file_path, frame) ==
    [raised |-> "none", path |-> FramePath(pre_file_path, frame)]

\* CellImageSet._build_file_path
build_file_path(fs, pre_file_path, frame) ==
    LET file_path == FramePath(pre_file_path, frame)
    IN IF file_path \notin fs
       THEN [raised |-> "FileNotFoundError", path |-> file_path]
       ELSE [raised |-> "none", path |-> file_path]

\* tiff.imread: every image file holds SourceImage, every mask file SourceMask
ImRead(req, path) ==
    IF path.dir = "images" THEN SourceImage(req.h, req.w) ELSE SourceMask(req.h, req.w)

\* CellImageSet._crop_array on a file that exists
crop_array_file(req, path, cell_mask_value) ==
    box_array(ImRead(req, path), req.cy2, req.cx2, req.size, cell_mask_value)

\* the loop of CellImageSet._loads_arrays from frame on: the arrays loaded so
\* far, the files read so far, and the exception that ended the loop
RECURSIVE LoadFrames(_, _, _, _, _)
LoadFrames(req, pre_file_path, cell_mask_value, frame, acc) ==
    IF frame > req.n_frames THEN acc
    ELSE LET b == build_file_path(req.fs, pre_file_path, frame)
         IN IF b.raised # "none" THEN [acc EXCEPT !.raised = b.raised]
            ELSE LoadFrames(req, pre_file_path, cell_mask_value, frame + 1,
                            [acc EXCEPT
                               !.arrays = Append(acc.arrays,
                                                 crop_array_file(req, b.path, cell_mask_value)),
                               !.reads = Append(acc.reads, b.path)])

\* CellImageSet._loads_arrays
loads_frame_arrays(req, pre_file_path, cell_mask_value) ==
    LoadFrames(req, pre_file_path, cell_mask_value, 1,
               [raised |-> "none", arrays |-> <<>>, reads |-> <<>>])

\* CellImageSet.__init__: the object, or the exception that left none
CellImageSet_init(req) ==
    LET imgs == loads_frame_arrays(req, pre_img_path, None)
        masks == loads_frame_arrays(req, pre_mask_path, Some(req.label))
    IN IF imgs.raised # "none"
       THEN [kind |-> "raised", raised |-> imgs.raised, reads |-> imgs.reads]
       ELSE IF masks.raised # "none"
       THEN [kind |-> "raised", raised |-> masks.raised, reads |-> imgs.reads \o masks.reads]
       ELSE [kind |-> "set", imgs |-> imgs.arrays, masks |-> masks.arrays,
             reads |-> imgs.reads \o masks.reads]

(***************************************************************************)
(* Texts and floats.  A float is an integer number of thousandths.  A text *)
(* is a decimal literal [whole, frac] (frac: the digits after the point)   *)
(* or a symbol [sym].                                                      *)
(***************************************************************************)
Tok(s) == [sym |-> s]
IsLiteral(t) == DOMAIN t = {"whole", "frac"}

\* str(v) cut to one digit after the point
FormatFloat_one_digit(v) == [whole |-> v \div 1000, frac |-> <<(v % 1000) \div 100>>]

\* str(v) of a non-negative float: the shortest decimal, at least one digit
\* after the point ("0.3", "0.31", "1.0")
FormatFloat(v) ==
    LET f == v % 1000
        d1 == f \div 100
        d2 == (f \div 10) % 10
        d3 == f % 10
    IN [whole |-> v \div 1000,
        frac |-> IF d3 # 0 THEN <<d1, d2, d3>>
                 ELSE IF d2 # 0 THEN <<d1, d2>> ELSE <<d1>>]

\* float(t) succeeds on decimal literals only (ValueError otherwise); the
\* value is kept to the thousandth nearest to the literal
CanParseFloat(t) == IsLiteral(t)
ParseFloat(t) ==
    LET d(i) == IF i <= Len(t.frac) THEN t.frac[i] ELSE 0
    IN t.whole * 1000 + d(1) * 100 + d(2) * 10 + d(3) + (IF d(4) >= 5 THEN 1 ELSE 0)

\* round(v, 2); no model value lies halfway between two hundredths
Round2(v) == ((v + 5) \div 10) * 10

\* f"{v:.2f}": the text with exactly two decimals
FormatFloat2(v) ==
    LET w == Round2(v)
    IN [whole |-> w \div 1000, frac |-> <<(w % 1000) \div 100, ((w % 1000) \div 10) % 10>>]

\* the clamp step 0.01 of get_threshold_values
Epsilon == 10

\* the two-decimal values x below 0.99 for which the double x + 0.01 is not the
\* double nearest to the decimal sum, with the digits str() prints after "0."
\* (0.05 + 0.01 is 0.060000000000000005)
InexactSum ==
    50 :> <<0, 6, 0, 0, 0, 0, 0, 0, 0, 0, 0, 0, 0, 0, 0, 0, 0, 5>> @@
    60 :> <<0, 6, 9, 9, 9, 9, 9, 9, 9, 9, 9, 9, 9, 9, 9, 9, 9>> @@
    90 :> <<0, 9, 9, 9, 9, 9, 9, 9, 9, 9, 9, 9, 9, 9, 9, 9, 9>> @@
    140 :> <<1, 5, 0, 0, 0, 0, 0, 0, 0, 0, 0, 0, 0, 0, 0, 0, 2>> @@
    170 :> <<1, 8, 0, 0, 0, 0, 0, 0, 0, 0, 0, 0, 0, 0, 0, 0, 2>> @@
    200 :> <<2, 1, 0, 0, 0, 0, 0, 0, 0, 0, 0, 0, 0, 0, 0, 0, 2>> @@
    230 :> <<2, 4, 0, 0, 0, 0, 0, 0, 0, 0, 0, 0, 0, 0, 0, 0, 2>> @@
    280 :> <<2, 9, 0, 0, 0, 0, 0, 0, 0, 0, 0, 0, 0, 0, 0, 0, 4>> @@
    340 :> <<3, 5, 0, 0, 0, 0, 0, 0, 0, 0, 0, 0, 0, 0, 0, 0, 3>> @@
    400 :> <<4, 1, 0, 0, 0, 0, 0, 0, 0, 0, 0, 0, 0, 0, 0, 0, 3>> @@
    460 :> <<4, 7, 0, 0, 0, 0, 0, 0, 0, 0, 0, 0, 0, 0, 0, 0, 3>> @@
    560 :> <<5, 7, 0, 0, 0, 0, 0, 0, 0, 0, 0, 0, 0, 0, 0, 1>> @@
    680 :> <<6, 9, 0, 0, 0, 0, 0, 0, 0, 0, 0, 0, 0, 0, 0, 1>> @@
    810 :> <<8, 2, 0, 0, 0, 0, 0, 0, 0, 0, 0, 0, 0, 0, 0, 1>> @@
    930 :> <<9, 4, 0, 0, 0, 0, 0, 0, 0, 0, 0, 0, 0, 0, 0, 1>>

\* str(lower_val + 0.01)
StrOfClamped(lower_val) ==
    IF lower_val \in DOMAIN InexactSum
    THEN [whole |-> 0, frac |-> InexactSum[lower_val]]
    ELSE FormatFloat(lower_val + Epsilon)

\* the float value of a boolean in a numeric comparison (True is 1.0)
BoolAsFloat(b) == IF b THEN 1000 ELSE 0

(***************************************************************************)
(* Data frames: a sequence of columns [name, dtype, vals]; a column name   *)
(* is a sequence of texts.  Rows are identified by their index 1 .. n.     *)
(***************************************************************************)
RatioName == <<Tok("ratio")>>
ProcessName == <<Tok("process")>>

\* f"{lower_val} < x < {upper_val}", from str(lower_val) and str(upper_val)
ThresholdName(lower_str, upper_str) ==
    <<lower_str, Tok("<"), Tok("x"), Tok("<"), upper_str>>

\* "< x <" in col
IsThresholdName(col) ==
    \E i \in 1 .. Len(col) - 2 :
        col[i] = Tok("<") /\ col[i + 1] = Tok("x") /\ col[i + 2] = Tok("<")

Columns(df) == {df[i].name : i \in 1 .. Len(df)}
HasColumn(df, name) == name \in Columns(df)
Column(df, name) == df[CHOOSE i \in 1 .. Len(df) : df[i].name = name]
NRows(df) == Len(df[1].vals)
Ratio(df) == Column(df, RatioName).vals

\* threshold_cols = [col for col in df.columns if "< x <" in col], in column order
ThresholdCols(df) ==
    LET keep(c) == IsThresholdName(c.name)
        cols == SelectSeq(df, keep)
    IN [i \in 1 .. Len(cols) |-> cols[i].name]

SeqRange(s) == {s[i] : i \in 1 .. Len(s)}

\* df.drop(columns=names, inplace=True)
DropColumns(df, names) ==
    LET keep(c) == c.name \notin names IN SelectSeq(df, keep)

\* df[name] = vals: replaces the column in place or appends it
SetColumn(df, name, dtype, vals) ==
    LET col == [name |-> name, dtype |-> dtype, vals |-> vals]
    IN IF HasColumn(df, name)
       THEN [i \in 1 .. Len(df) |-> IF df[i].name = name THEN col ELSE df[i]]
       ELSE Append(df, col)

\* DataFrame.to_csv(index=False): every cell written as text
CsvCell(dtype, v) ==
    IF dtype = "bool" THEN (IF v THEN Tok("True") ELSE Tok("False"))
    ELSE FormatFloat(v)

to_csv(df) ==
    [i \in 1 .. Len(df) |->
        [name |-> df[i].name,
         cells |-> [r \in 1 .. Len(df[i].vals) |-> CsvCell(df[i].dtype, df[i].vals[r])]]]

\* pd.read_csv: a column of True/False cells is boolean, any other numeric
read_csv(file) ==
    LET isBool(cells) == \A r \in 1 .. Len(cells) : cells[r] \in {Tok("True"), Tok("False")}
    IN [i \in 1 .. Len(file) |->
          IF isBool(file[i].cells)
          THEN [name |-> file[i].name, dtype |-> "bool",
                vals |-> [r \in 1 .. Len(file[i].cells) |-> file[i].cells[r] = Tok("True")]]
          ELSE [name |-> file[i].name, dtype |-> "float",
                vals |-> [r \in 1 .. Len(file[i].cells) |-> ParseFloat(file[i].cells[r])]]]

(***************************************************************************)
(* DataLoader (backend/data_loader.py); LoadData (backend/load_data.py)    *)
(* has the same filter, count, bounds and save.                            *)
(***************************************************************************)
\* the value of a cell in a numeric comparison
CellAsFloat(col, r) ==
    IF col.dtype = "bool" THEN BoolAsFloat(col.vals[r]) ELSE col.vals[r]

\* filter_data with both bounds exclusive
filter_data_strict(df, lower, upper, col_name) ==
    LET col == Column(df, col_name)
        ids == [r \in 1 .. NRows(df) |-> r]
        in(r) == CellAsFloat(col, r) > lower /\ CellAsFloat(col, r) < upper
    IN SelectSeq(ids, in)

\* DataLoader.filter_data: the rows (by index, in table order) with
\* lower <= df[col_name] <= upper
filter_data(df, lower, upper, col_name) ==
    LET col == Column(df, col_name)
        ids == [r \in 1 .. NRows(df) |-> r]
        in(r) == CellAsFloat(col, r) >= lower /\ CellAsFloat(col, r) <= upper
    IN SelectSeq(ids, in)

\* DataLoader.get_cell_count
get_cell_count(df, lower, upper) == Len(filter_data(df, lower, upper, RatioName))

SetMin(S) == CHOOSE x \in S : \A y \in S : x <= y
SetMax(S) == CHOOSE x \in S : \A y \in S : x >= y

\* default_lower rounded to two decimals
default_lower_rounded(df) == ((SetMin(SeqRange(Ratio(df))) + 5) \div 10) * 10

\* DataLoader.default_lower / default_upper
default_lower(df) == SetMin(SeqRange(Ratio(df)))
default_upper(df) == SetMax(SeqRange(Ratio(df)))

\* DataLoader.update_thresholds: the attributes lower, upper, column_thresholds
update_thresholds(lower, upper, new_column) ==
    Some([lower |-> lower, upper |-> upper, column_thresholds |-> new_column])

\* the outcome of a loads_arrays call: the exception raised ("none" when it
\* returns), the table row whose centroid_y, centroid_x and fov_ID cells are
\* used (0 when no row is), and the files "{fov_ID}_{label}.tif" read, each
\* named by the row of its fov_ID and its label
Loaded(raised, row) ==
    [raised |-> raised, row |-> row,
     files |-> IF row = 0 THEN {} ELSE {<<row, "measure">>, <<row, "mask">>}]

\* loads_arrays that falls back to the whole ratio range while no thresholds
\* are set
loads_arrays_default_window(d, a, cell_idx) ==
    LET pos == IF a = None
               THEN filter_data(d, default_lower(d), default_upper(d), RatioName)
               ELSE filter_data(d, a[1].lower, a[1].upper, a[1].column_thresholds)
    IN IF cell_idx >= Len(pos) THEN Loaded("IndexError", 0)
       ELSE Loaded("none", pos[cell_idx + 1])

\* DataLoader.loads_arrays: ValueError while the thresholds are unset, else the
\* row at position cell_idx of filter_data(lower, upper, column_thresholds)
loads_arrays(d, a, cell_idx) ==
    IF a = None THEN Loaded("ValueError", 0)
    ELSE LET pos == filter_data(d, a[1].lower, a[1].upper, a[1].column_thresholds)
         IN IF cell_idx >= Len(pos) THEN Loaded("IndexError", 0)
            ELSE Loaded("none", pos[cell_idx + 1])

(***************************************************************************)
(* DataLoader methods the controllers call whose bodies are not part of    *)
(* the sources: modelled from the specification.                           *)
(***************************************************************************)
\* a threshold column name of the form "<float> < x < <float>"
ParsesAsWindow(col) ==
    /\ Len(col) = 5
    /\ CanParseFloat(col[1]) /\ CanParseFloat(col[5])
    /\ col[2] = Tok("<") /\ col[3] = Tok("x") /\ col[4] = Tok("<")

\* load_threshold_bounds / retrieve_threshold_range: the window of the stored
\* threshold column, else the default bounds with no active column
load_threshold_bounds(df) ==
    LET cols == ThresholdCols(df)
    IN IF Len(cols) > 0 /\ ParsesAsWindow(cols[1])
       THEN [lower |-> ParseFloat(cols[1][1]), upper |-> ParseFloat(cols[1][5]),
             attrs |-> update_thresholds(ParseFloat(cols[1][1]),
                                         ParseFloat(cols[1][5]), cols[1])]
       ELSE [lower |-> default_lower(df), upper |-> default_upper(df), attrs |-> None]

\* add_process_col: adds the kept flag, all False, unless the column exists
add_process_col(df) ==
    IF HasColumn(df, ProcessName) THEN df
    ELSE SetColumn(df, ProcessName, "bool", [r \in 1 .. NRows(df) |-> FALSE])

\* the position of row r among the rows ids when sorted by ratio, largest
\* first, rows of equal ratio in table order
RankDesc(ratio, ids, r) ==
    1 + Cardinality({q \in ids : ratio[q] > ratio[r] \/ (ratio[q] = ratio[r] /\ q < r)})

\* sort_values(by="ratio", ascending=False) of the rows ids
SortByRatioDesc(ratio, ids) ==
    [k \in 1 .. Cardinality(ids) |-> CHOOSE r \in ids : RankDesc(ratio, ids, r) = k]

\* pos_df: a copy of the rows whose active threshold column is True, sorted by
\* ratio descending; each row keeps its index in the full table
pos_df(df, attrs) ==
    LET col == Column(df, attrs[1].column_thresholds)
        ids == {r \in 1 .. NRows(df) : col.vals[r]}
        order == SortByRatioDesc(Ratio(df), ids)
    IN [k \in 1 .. Len(order) |->
          [id |-> order[k],
           ratio |-> Ratio(df)[order[k]],
           process |-> Column(df, ProcessName).vals[order[k]]]]

\* update_cell_to_process_in_df: the kept flags of the subset rows written into
\* the full table by row index
update_cell_to_process_in_df(df, sub) ==
    LET old == Column(df, ProcessName).vals
        new == [r \in 1 .. NRows(df) |->
                  IF \E k \in 1 .. Len(sub) : sub[k].id = r
                  THEN sub[CHOOSE k \in 1 .. Len(sub) : sub[k].id = r].process
                  ELSE old[r]]
    IN SetColumn(df, ProcessName, "bool", new)

(***************************************************************************)
(* Threshold inputs of the histogram views.                                *)
(***************************************************************************)
\* get_threshold_values without the test lower_val >= upper_val
get_threshold_values_no_clamp(lower_edit, upper_edit, dflt_lower, dflt_upper) ==
    LET lower_ok == CanParseFloat(lower_edit)
        upper_ok == CanParseFloat(upper_edit)
        lower_val == IF lower_ok THEN ParseFloat(lower_edit) ELSE Round2(dflt_lower)
        upper_val == IF upper_ok THEN ParseFloat(upper_edit) ELSE Round2(dflt_upper)
    IN [lower |-> lower_val,
        upper |-> upper_val,
        upper_str |-> FormatFloat(upper_val),
        lower_edit |-> IF lower_ok THEN lower_edit ELSE FormatFloat(lower_val),
        upper_edit |-> IF upper_ok THEN upper_edit ELSE FormatFloat(upper_val)]

\* ThresholdPanel / ControlsWidget.get_threshold_values: the two values, what
\* str() prints for the upper one, and the texts left in the edits
get_threshold_values(lower_edit, upper_edit, dflt_lower, dflt_upper) ==
    LET lower_ok == CanParseFloat(lower_edit)
        upper_ok == CanParseFloat(upper_edit)
        lower_val == IF lower_ok THEN ParseFloat(lower_edit) ELSE Round2(dflt_lower)
        upper_0 == IF upper_ok THEN ParseFloat(upper_edit) ELSE Round2(dflt_upper)
        clamp == lower_val >= upper_0
        upper_val == IF clamp THEN lower_val + Epsilon ELSE upper_0
    IN [lower |-> lower_val,
        upper |-> upper_val,
        upper_str |-> IF clamp THEN StrOfClamped(lower_val) ELSE FormatFloat(upper_0),
        lower_edit |-> IF lower_ok THEN lower_edit ELSE FormatFloat(lower_val),
        upper_edit |-> IF clamp THEN FormatFloat(Round2(upper_val))
                       ELSE IF upper_ok THEN upper_edit ELSE FormatFloat(upper_0)]

\* HistogramWindow._parse_threshold_values: no rounding, no clamp
parse_threshold_values(lower_edit, upper_edit, dflt_lower, dflt_upper) ==
    [lower |-> IF CanParseFloat(lower_edit) THEN ParseFloat(lower_edit) ELSE dflt_lower,
     upper |-> IF CanParseFloat(upper_edit) THEN ParseFloat(upper_edit) ELSE dflt_upper,
     upper_str |-> FormatFloat(IF CanParseFloat(upper_edit) THEN ParseFloat(upper_edit)
                               ELSE dflt_upper),
     lower_edit |-> lower_edit,
     upper_edit |-> upper_edit]

\* the window test with both ends inclusive
WindowColumn_inclusive(df, lower_val, upper_val) ==
    [r \in 1 .. NRows(df) |-> lower_val <= Ratio(df)[r] /\ Ratio(df)[r] <= upper_val]

\* df['ratio'].apply(lambda x: lower_val < x < upper_val)
WindowColumn(df, lower_val, upper_val) ==
    [r \in 1 .. NRows(df) |-> lower_val < Ratio(df)[r] /\ Ratio(df)[r] < upper_val]

(***************************************************************************)
(* Crop requests.                                                          *)
(***************************************************************************)
NoCrop == [kind |-> "none"]

Coords(n) == (-2 * MaxOff) .. (2 * (n + MaxOff))

\* the scenario of test_cropping_with_padding: 10x10 source, centroid (2, 2), size 8
TestCrop == [h |-> 10, w |-> 10, size |-> 8, cy2 |-> 4, cx2 |-> 4, label |-> 1]

CropInputs ==
    { [h |-> h, w |-> w, size |-> s, cy2 |-> y, cx2 |-> x, label |-> 1] :
        h \in 1 .. MaxDim, w \in 1 .. MaxDim, s \in 1 .. MaxSize,
        y \in Coords(MaxDim), x \in Coords(MaxDim) }
    \cup {TestCrop}

(***************************************************************************)
(* State.                                                                  *)
(***************************************************************************)
VARIABLES
    c_in,       \* the crop request: source shape, centroid, size, cell label
    c_out,      \* the crop returned for it, or NoCrop
    csv,        \* the stored table (the CSV file)
    app,        \* the program running on it: "none", "tinder", "main2", "histo", "window"
    df,         \* DataLoader.df, the table in memory
    attrs,      \* DataLoader.lower / upper / column_thresholds, None while unset
    lower_edit, \* text of the lower threshold edit
    upper_edit, \* text of the upper threshold edit
    count,      \* the last get_cell_count call: its bounds and the count shown
    cell,       \* the CellCrush controller, None while the histogram is shown
    committed,  \* history: the window of the last commit, its run and program, or None
    runs,       \* history: how many times a program was started on the table
    last        \* history: the last operation; for a mark, the row and the flag

crop_vars == <<c_in, c_out>>
table_vars == <<csv, app, df, attrs, lower_edit, upper_edit, count, cell, committed, runs, last>>
vars == <<c_in, c_out, csv, app, df, attrs, lower_edit, upper_edit, count, cell, committed,
          runs, last>>

(***************************************************************************)
(* Bounds and inputs of the table model.                                   *)
(***************************************************************************)
\* largest number of rows of a table
MaxRows == 3
\* largest number of threshold columns a table may accumulate
MaxThrCols == 2
\* largest number of program starts on one stored table
MaxRuns == 2

\* ratios the rows of a table are taken from, in this order: 0.5, 0.126, 0.8, ...
BaseRatios == <<500, 126, 800, 500, 126, 800>>
Reverse(s) == [i \in 1 .. Len(s) |-> s[Len(s) + 1 - i]]
\* the table of the tests: ratios 0.1, 0.5, 0.8
SampleRatios == <<100, 500, 800>>

\* a table of one cell whose ratio is 0.05
SingleRatio == <<50>>

Tables ==
    {SubSeq(BaseRatios, 1, n) : n \in 1 .. MaxRows}
    \cup {Reverse(SubSeq(BaseRatios, 1, n)) : n \in 1 .. MaxRows}
    \cup {SampleRatios, SingleRatio}

\* what the user types into a threshold edit: "abc", "0.3", "0.9"
TypedTexts == {Tok("abc"), FormatFloat(300), FormatFloat(900)}

FreshTable(ratios) == <<[name |-> RatioName, dtype |-> "float", vals |-> ratios]>>

\* the sample table of the tests: ratio and centroid_y of three cells
CentroidYName == <<Tok("centroid_y")>>
SampleTable ==
    <<[name |-> RatioName, dtype |-> "float", vals |-> SampleRatios],
      [name |-> CentroidYName, dtype |-> "float", vals |-> <<50000, 60000, 55000>>]>>

\* a table that comes with a column "low < x < high", not written by the program
ForeignName == <<Tok("low"), Tok("<"), Tok("x"), Tok("<"), Tok("high")>>
ForeignTable ==
    <<[name |-> RatioName, dtype |-> "float", vals |-> SampleRatios],
      [name |-> ForeignName, dtype |-> "bool", vals |-> <<FALSE, TRUE, TRUE>>]>>

NoCount == [lower |-> 0, upper |-> 0, n |-> 0]
Op(name) == [op |-> name, id |-> 0, keep |-> FALSE]
\* the window the cell view was opened on before this commit in the same run,
\* None if there is none
PreviousWindow ==
    IF committed # None /\ committed[1].run = runs /\ app \in {"tinder", "main2"}
    THEN Some([lower |-> committed[1].lower, upper |-> committed[1].upper])
    ELSE None

\* the window a commit has made active, with what str() prints for its upper bound
WindowStr(lower, upper, upper_str) ==
    Some([lower |-> lower, upper |-> upper, upper_str |-> upper_str,
          run |-> runs, app |-> app, prev |-> PreviousWindow])

Window(lower, upper) == WindowStr(lower, upper, FormatFloat(upper))

\* the objects one handler works on
Mem == [df |-> df, attrs |-> attrs, lower_edit |-> lower_edit,
        upper_edit |-> upper_edit, count |-> count, csv |-> csv,
        committed |-> committed, last |-> last]

SetMem(m) ==
    /\ df' = m.df
    /\ attrs' = m.attrs
    /\ lower_edit' = m.lower_edit
    /\ upper_edit' = m.upper_edit
    /\ count' = m.count
    /\ csv' = m.csv
    /\ committed' = m.committed
    /\ last' = m.last

(***************************************************************************)
(* Start of a program on the stored table.                                 *)
(***************************************************************************)
\* DataLoader.__init__ and FlameFilter.__init__
FlameFilter_init(file) ==
    LET d == read_csv(file)
        b == load_threshold_bounds(d)
    IN [df |-> d, attrs |-> b.attrs,
        lower_edit |-> FormatFloat(Round2(b.lower)),
        upper_edit |-> FormatFloat(Round2(b.upper)),
        count |-> [lower |-> b.lower, upper |-> b.upper,
                   n |-> get_cell_count(d, b.lower, b.upper)],
        csv |-> file, committed |-> committed, last |-> Op("launch")]

\* DataLoader.__init__ and HistogramController.__init__ (histo_control.py);
\* LoadData.__init__ and HistogramWindow.__init__ set the same texts and count
HistogramController_init(file) ==
    LET d == read_csv(file)
    IN [df |-> d, attrs |-> None,
        lower_edit |-> FormatFloat(Round2(default_lower(d))),
        upper_edit |-> FormatFloat(Round2(default_upper(d))),
        count |-> [lower |-> default_lower(d), upper |-> default_upper(d),
                   n |-> get_cell_count(d, default_lower(d), default_upper(d))],
        csv |-> file, committed |-> committed, last |-> Op("launch")]

(***************************************************************************)
(* Handlers of the histogram views.                                        *)
(***************************************************************************)
\* FlameFilter.on_threshold_change / HistogramController.on_threshold_change
on_threshold_change(m) ==
    LET tv == get_threshold_values(m.lower_edit, m.upper_edit,
                                   default_lower(m.df), default_upper(m.df))
    IN [m EXCEPT !.lower_edit = tv.lower_edit,
                 !.upper_edit = tv.upper_edit,
                 !.count = [lower |-> tv.lower, upper |-> tv.upper,
                            n |-> get_cell_count(m.df, tv.lower, tv.upper)],
                 !.last = Op("count")]

\* FlameFilter.on_lower_moved: the lower line was dragged to new_lower; with an
\* upper text that is no number float() raises and nothing changes
on_lower_moved(m, new_lower) ==
    IF ~CanParseFloat(m.upper_edit) THEN m
    ELSE LET upper == ParseFloat(m.upper_edit)
             moved == IF new_lower >= upper THEN upper - Epsilon ELSE new_lower
         IN [on_threshold_change([m EXCEPT !.lower_edit = FormatFloat2(moved)])
                EXCEPT !.last = [op |-> "drag_lower", id |-> new_lower, keep |-> FALSE]]

\* FlameFilter.on_upper_moved
on_upper_moved(m, new_upper) ==
    IF ~CanParseFloat(m.lower_edit) THEN m
    ELSE LET lower == ParseFloat(m.lower_edit)
             moved == IF new_upper <= lower THEN lower + Epsilon ELSE new_upper
         IN [on_threshold_change([m EXCEPT !.upper_edit = FormatFloat2(moved)])
                EXCEPT !.last = [op |-> "drag_upper", id |-> new_upper, keep |-> FALSE]]

\* FlameFilter._on_span_selected
on_span_selected(m, lower, upper) ==
    [on_threshold_change([m EXCEPT !.lower_edit = FormatFloat2(lower),
                                   !.upper_edit = FormatFloat2(upper)])
        EXCEPT !.last = [op |-> "span", id |-> lower, keep |-> FALSE]]

\* HistogramWindow.on_threshold_change / update_plot
HistogramWindow_update_plot(m) ==
    LET tv == parse_threshold_values(m.lower_edit, m.upper_edit,
                                     default_lower(m.df), default_upper(m.df))
    IN [m EXCEPT !.count = [lower |-> tv.lower, upper |-> tv.upper,
                            n |-> get_cell_count(m.df, tv.lower, tv.upper)],
                 !.last = Op("count")]

\* on_next_pressed that adds the new column beside the old threshold columns
on_next_pressed_keep_old(m) ==
    LET tv == get_threshold_values(m.lower_edit, m.upper_edit,
                                   default_lower(m.df), default_upper(m.df))
        column_name == ThresholdName(FormatFloat(tv.lower), tv.upper_str)
        df2 == SetColumn(m.df, column_name, "bool", WindowColumn(m.df, tv.lower, tv.upper))
    IN [m EXCEPT !.df = df2,
                 !.csv = to_csv(df2),
                 !.attrs = load_threshold_bounds(df2).attrs,
                 !.lower_edit = tv.lower_edit,
                 !.upper_edit = tv.upper_edit,
                 !.committed = WindowStr(tv.lower, tv.upper, tv.upper_str),
                 !.last = Op("commit_window")]

\* on_next_pressed that keeps only the ratio column beside the new column
on_next_pressed_ratio_only(m) ==
    LET tv == get_threshold_values(m.lower_edit, m.upper_edit,
                                   default_lower(m.df), default_upper(m.df))
        column_name == ThresholdName(FormatFloat(tv.lower), tv.upper_str)
        df1 == DropColumns(m.df, Columns(m.df) \ {RatioName})
        df2 == SetColumn(df1, column_name, "bool", WindowColumn(df1, tv.lower, tv.upper))
    IN [m EXCEPT !.df = df2,
                 !.csv = to_csv(df2),
                 !.attrs = load_threshold_bounds(df2).attrs,
                 !.lower_edit = tv.lower_edit,
                 !.upper_edit = tv.upper_edit,
                 !.committed = WindowStr(tv.lower, tv.upper, tv.upper_str),
                 !.last = Op("commit_window")]

\* on_next_pressed that sorts the table by ratio before it adds the column
on_next_pressed_sorted(m) ==
    LET tv == get_threshold_values(m.lower_edit, m.upper_edit,
                                   default_lower(m.df), default_upper(m.df))
        column_name == ThresholdName(FormatFloat(tv.lower), tv.upper_str)
        order == SortByRatioDesc(Ratio(m.df), 1 .. NRows(m.df))
        df0 == [i \in 1 .. Len(m.df) |->
                  [m.df[i] EXCEPT !.vals = [r \in 1 .. Len(order) |-> m.df[i].vals[order[r]]]]]
        df1 == DropColumns(df0, SeqRange(ThresholdCols(df0)))
        df2 == SetColumn(df1, column_name, "bool", WindowColumn(df1, tv.lower, tv.upper))
    IN [m EXCEPT !.df = df2,
                 !.csv = to_csv(df2),
                 !.attrs = load_threshold_bounds(df2).attrs,
                 !.lower_edit = tv.lower_edit,
                 !.upper_edit = tv.upper_edit,
                 !.committed = WindowStr(tv.lower, tv.upper, tv.upper_str),
                 !.last = Op("commit_window")]

\* on_next_pressed with the window test inclusive at both ends
on_next_pressed_inclusive(m) ==
    LET tv == get_threshold_values(m.lower_edit, m.upper_edit,
                                   default_lower(m.df), default_upper(m.df))
        column_name == ThresholdName(FormatFloat(tv.lower), tv.upper_str)
        threshold_cols == ThresholdCols(m.df)
        df1 == IF Len(threshold_cols) > 0
               THEN DropColumns(m.df, SeqRange(threshold_cols)) ELSE m.df
        df2 == SetColumn(df1, column_name, "bool",
                         [r \in 1 .. NRows(df1) |->
                            tv.lower <= Ratio(df1)[r] /\ Ratio(df1)[r] <= tv.upper])
    IN [m EXCEPT !.df = df2,
                 !.csv = to_csv(df2),
                 !.attrs = load_threshold_bounds(df2).attrs,
                 !.lower_edit = tv.lower_edit,
                 !.upper_edit = tv.upper_edit,
                 !.committed = WindowStr(tv.lower, tv.upper, tv.upper_str),
                 !.last = Op("commit_window")]

\* FlameFilter.on_next_pressed
on_next_pressed(m) ==
    LET tv == get_threshold_values(m.lower_edit, m.upper_edit,
                                   default_lower(m.df), default_upper(m.df))
        column_name == ThresholdName(FormatFloat(tv.lower), tv.upper_str)
        threshold_cols == ThresholdCols(m.df)
        df1 == IF Len(threshold_cols) > 0
               THEN DropColumns(m.df, SeqRange(threshold_cols)) ELSE m.df
        df2 == SetColumn(df1, column_name, "bool", WindowColumn(df1, tv.lower, tv.upper))
    IN [m EXCEPT !.df = df2,
                 !.csv = to_csv(df2),
                 !.attrs = load_threshold_bounds(df2).attrs,
                 !.lower_edit = tv.lower_edit,
                 !.upper_edit = tv.upper_edit,
                 !.committed = WindowStr(tv.lower, tv.upper, tv.upper_str),
                 !.last = Op("commit_window")]

\* HistogramController.on_to_cellview_pressed (histo_control.py) and
\* HistogramController.on_next_pressed (histo_view.py)
on_to_cellview_pressed(m) ==
    LET tv == get_threshold_values(m.lower_edit, m.upper_edit,
                                   default_lower(m.df), default_upper(m.df))
        column_name == ThresholdName(FormatFloat(tv.lower), tv.upper_str)
        threshold_cols == ThresholdCols(m.df)
        df1 == IF Len(threshold_cols) > 0
               THEN DropColumns(m.df, SeqRange(threshold_cols)) ELSE m.df
        df2 == SetColumn(df1, column_name, "bool", WindowColumn(df1, tv.lower, tv.upper))
    IN [m EXCEPT !.df = df2,
                 !.attrs = update_thresholds(tv.lower, tv.upper, column_name),
                 !.csv = to_csv(df2),
                 !.lower_edit = tv.lower_edit,
                 !.upper_edit = tv.upper_edit,
                 !.committed = WindowStr(tv.lower, tv.upper, tv.upper_str),
                 !.last = Op("commit_window")]

\* HistogramWindow.on_next_pressed
HistogramWindow_on_next_pressed(m) ==
    LET tv == parse_threshold_values(m.lower_edit, m.upper_edit,
                                     default_lower(m.df), default_upper(m.df))
        column_name == ThresholdName(FormatFloat(tv.lower), tv.upper_str)
        df2 == SetColumn(m.df, column_name, "bool", WindowColumn(m.df, tv.lower, tv.upper))
    IN [m EXCEPT !.df = df2,
                 !.csv = to_csv(df2),
                 !.committed = WindowStr(tv.lower, tv.upper, tv.upper_str),
                 !.last = Op("commit_window")]

(***************************************************************************)
(* CellCrush (guis/cell_crush.py).                                         *)
(***************************************************************************)
\* the rows of the table with a frame file missing in the image folders
MissingRows == IF "missing" \in DOMAIN c_in THEN c_in.missing ELSE {}

\* loads_arrays raises FileNotFoundError for the row at current_idx
load_raises(c) == c.df[c.current_idx + 1].id \in MissingRows

\* CellCrush._load_cell: the image set of the row at current_idx is displayed;
\* when loads_arrays raises, the assignment and _update_view are not reached
load_cell(c) == IF load_raises(c) THEN c ELSE [c EXCEPT !.current_cell = c.current_idx]

\* what a handler that ends with _load_cell leaves as the last operation
AfterLoad(c, name) == IF load_raises(c) THEN Op("load_error") ELSE Op(name)

\* _init_data_loader that serves the subset of the window the cell view was
\* opened on before, when there is one
CellCrush_init_cached(d, a) ==
    LET w == PreviousWindow
        ids == {r \in 1 .. NRows(d) : w[1].lower < Ratio(d)[r] /\ Ratio(d)[r] < w[1].upper}
        order == SortByRatioDesc(Ratio(d), ids)
        old == [k \in 1 .. Len(order) |->
                  [id |-> order[k], ratio |-> Ratio(d)[order[k]],
                   process |-> Column(d, ProcessName).vals[order[k]]]]
        sub == IF w = None THEN pos_df(d, a) ELSE old
    IN IF Len(sub) = 0 THEN None
       ELSE Some(load_cell([df |-> sub, current_idx |-> 0, current_cell |-> 0]))

\* CellCrush._gather_info: self.df['ratio'].iat[idx] and the other cells of
\* position idx of the subset; IndexError when the subset has no such position
gather_info(sub, idx) ==
    IF idx >= Len(sub) THEN Loaded("IndexError", 0) ELSE Loaded("none", sub[idx + 1].id)

\* CellCrush._init_data_loader; with no active threshold column pos_df raises,
\* with no positive cell the first _load_cell raises when it reads position 0
\* of the subset: no controller is created
CellCrush_init(d, a) ==
    IF a = None THEN None
    ELSE LET sub == pos_df(d, a)
             c0 == [df |-> sub, current_idx |-> 0, current_cell |-> 0]
         IN IF gather_info(sub, 0).raised # "none" THEN None
            ELSE IF load_raises(c0) THEN None
            ELSE Some(load_cell(c0))

\* _mark_cell that writes the flag of the row after the current one
mark_cell_next_row(c, keep) ==
    [c EXCEPT !.df[((c.current_idx + 1) % Len(c.df)) + 1].process = keep]

\* _mark_cell that then moves the kept rows of the subset to the front
mark_cell_kept_first(c, keep) ==
    LET marked == [c.df EXCEPT ![c.current_idx + 1].process = keep]
        kept(row) == row.process
        other(row) == ~row.process
    IN [c EXCEPT !.df = SelectSeq(marked, kept) \o SelectSeq(marked, other)]

\* CellCrush._mark_cell
mark_cell(c, keep) == [c EXCEPT !.df[c.current_idx + 1].process = keep]

\* CellCrush._gather_info / CellImageController._update_view: the selected
\* count shown, int(self.df['process'].sum())
selected_count(c) == Cardinality({k \in 1 .. Len(c.df) : c.df[k].process})

\* CellCrush._step_cell
step_cell(c, delta) ==
    load_cell([c EXCEPT !.current_idx = (c.current_idx + delta) % Len(c.df)])

(***************************************************************************)
(* CellImageController (gui/controllers/cell_image_control.py and          *)
(* gui/views/cell_view_manager.py), the cell view of main2.py.             *)
(***************************************************************************)
\* CellImageController.on_previous_cell: no step back from the first cell
CellImageController_on_previous_cell(c) ==
    IF c.current_idx > 0
    THEN load_cell([c EXCEPT !.current_idx = c.current_idx - 1])
    ELSE c

\* CellImageController._move_to_next_cell
move_to_next_cell(c) ==
    load_cell([c EXCEPT !.current_idx =
                  IF c.current_idx < Len(c.df) - 1 THEN c.current_idx + 1 ELSE 0])

\* CellImageController.on_reject_cell / on_keep_cell
CellImageController_mark(c, keep) == move_to_next_cell(mark_cell(c, keep))

\* DataLoader.save_csv: the file is overwritten with the table in memory
save_csv(d, file) == to_csv(d)

(***************************************************************************)
(* Actions.                                                                *)
(***************************************************************************)
Running == app # "none"
Histogram == Running /\ cell = None

Init ==
    /\ c_in = TestCrop
    /\ c_out = NoCrop
    /\ csv \in {to_csv(FreshTable(t)) : t \in Tables \ {SampleRatios}}
               \cup {to_csv(SampleTable), to_csv(ForeignTable)}
    /\ app = "none"
    /\ df = <<>>
    /\ attrs = None
    /\ lower_edit = Tok("")
    /\ upper_edit = Tok("")
    /\ count = NoCount
    /\ cell = None
    /\ committed = None
    /\ runs = 0
    /\ last = Op("init")

\* run_cell_tinder: CellTinderWidget.__init__
LaunchTinder ==
    /\ app = "none" /\ runs < MaxRuns
    /\ app' = "tinder"
    /\ runs' = runs + 1
    /\ SetMem(FlameFilter_init(csv))
    /\ cell' = None
    /\ UNCHANGED crop_vars

\* celltinder_main: CellTinder.__init__ with the HistogramController
LaunchHisto ==
    /\ app = "none" /\ runs < MaxRuns
    /\ app' = "histo"
    /\ runs' = runs + 1
    /\ SetMem(HistogramController_init(csv))
    /\ cell' = None
    /\ UNCHANGED crop_vars

\* gui/main.py: HistogramWindow on a LoadData
LaunchWindow ==
    /\ app = "none" /\ runs < MaxRuns
    /\ app' = "window"
    /\ runs' = runs + 1
    /\ SetMem(HistogramController_init(csv))
    /\ cell' = None
    /\ UNCHANGED crop_vars

\* the user edits a threshold text; editingFinished / textChanged runs the
\* view's on_threshold_change
TypeThreshold ==
    /\ Histogram
    /\ \E which \in {"lower", "upper"}, t \in TypedTexts :
          LET m == IF which = "lower" THEN [Mem EXCEPT !.lower_edit = t]
                   ELSE [Mem EXCEPT !.upper_edit = t]
          IN SetMem(IF app = "window" THEN HistogramWindow_update_plot(m)
                    ELSE on_threshold_change(m))
    /\ UNCHANGED <<app, cell, runs>>
    /\ UNCHANGED crop_vars

\* what the first _load_cell of a new CellCrush leaves as the last operation
FirstLoad(sub, op) ==
    IF Len(sub) > 0 THEN AfterLoad([df |-> sub, current_idx |-> 0, current_cell |-> 0], op.op)
    ELSE op

\* CellTinderWidget.show_cell_view once the window is committed: CellCrush is
\* built on the loader, which adds the process column and reads the subset
BuildCellCrush(m, d) ==
    /\ SetMem([m EXCEPT !.df = d,
                        !.last = FirstLoad(IF m.attrs = None THEN <<>> ELSE pos_df(d, m.attrs),
                                           m.last)])
    /\ cell' = CellCrush_init(d, m.attrs)

ShowCellView(m) == BuildCellCrush(m, add_process_col(m.df))

\* Next clicked in CellTinderWidget: FlameFilter.on_next_pressed (connected
\* first), then CellTinderWidget.show_cell_view, which commits again and builds
\* the CellCrush controller
NextTinder ==
    /\ Histogram /\ app = "tinder"
    /\ ShowCellView(on_next_pressed(on_next_pressed(Mem)))
    /\ UNCHANGED <<app, runs>>
    /\ UNCHANGED crop_vars

\* the cell view button of the HistogramController
NextHisto ==
    /\ Histogram /\ app = "histo"
    /\ SetMem(on_to_cellview_pressed(Mem))
    /\ UNCHANGED <<app, cell, runs>>
    /\ UNCHANGED crop_vars

\* Next clicked in the HistogramWindow
NextWindow ==
    /\ Histogram /\ app = "window"
    /\ LET m1 == HistogramWindow_on_next_pressed(Mem)
       IN /\ Len(ThresholdCols(m1.df)) <= MaxThrCols
          /\ SetMem(m1)
    /\ UNCHANGED <<app, cell, runs>>
    /\ UNCHANGED crop_vars

\* on_previous_cell / on_next_cell
StepCell ==
    /\ cell # None /\ app = "tinder"
    /\ \E delta \in {-1, 1} :
          /\ cell' = Some(step_cell(cell[1], delta))
          /\ last' = AfterLoad(step_cell(cell[1], delta), "step")
    /\ UNCHANGED <<csv, app, df, attrs, lower_edit, upper_edit, count, committed, runs>>
    /\ UNCHANGED crop_vars

\* the row of the full table at position current_idx of the active subset
DisplayedRow == pos_df(df, attrs)[cell[1].current_idx + 1].id

\* a mark that also writes the flag through to the full table
MarkCellWriteThrough ==
    /\ cell # None /\ app = "tinder"
    /\ \E keep \in BOOLEAN :
          /\ cell' = Some(mark_cell(cell[1], keep))
          /\ df' = update_cell_to_process_in_df(df, mark_cell(cell[1], keep).df)
          /\ last' = [op |-> "mark", id |-> DisplayedRow, keep |-> keep]
    /\ UNCHANGED <<csv, app, attrs, lower_edit, upper_edit, count, committed, runs>>
    /\ UNCHANGED crop_vars

\* on_keep_cell / on_reject_cell
MarkCell ==
    /\ cell # None /\ app = "tinder"
    /\ \E keep \in BOOLEAN :
          /\ cell' = Some(mark_cell(cell[1], keep))
          /\ last' = [op |-> "mark", id |-> DisplayedRow, keep |-> keep]
    /\ UNCHANGED <<csv, app, df, attrs, lower_edit, upper_edit, count, committed, runs>>
    /\ UNCHANGED crop_vars

\* on_cell_slider_value_preview: the slider moves without being released
SliderPreview ==
    /\ cell # None /\ app = "tinder"
    /\ \E value \in 1 .. Len(cell[1].df) :
          cell' = Some([cell[1] EXCEPT !.current_idx = value - 1])
    /\ last' = Op("preview")
    /\ UNCHANGED <<csv, app, df, attrs, lower_edit, upper_edit, count, committed, runs>>
    /\ UNCHANGED crop_vars

\* on_cell_slider_changed: the slider is released
SliderReleased ==
    /\ cell # None
    /\ \E cell_number \in 1 .. Len(cell[1].df) :
          /\ cell' = Some(load_cell([cell[1] EXCEPT !.current_idx = cell_number - 1]))
          /\ last' = AfterLoad([cell[1] EXCEPT !.current_idx = cell_number - 1], "slider")
    /\ UNCHANGED <<csv, app, df, attrs, lower_edit, upper_edit, count, committed, runs>>
    /\ UNCHANGED crop_vars

\* main2.py: MainApp.__init__ with the HistogramController of histo_view.py
LaunchMain2 ==
    /\ app = "none" /\ runs < MaxRuns
    /\ app' = "main2"
    /\ runs' = runs + 1
    /\ SetMem(FlameFilter_init(csv))
    /\ cell' = None
    /\ UNCHANGED crop_vars

\* Next clicked in MainApp: HistogramController.on_next_pressed (connected
\* first), then MainApp.show_cell_view, which commits again and builds the
\* CellImageController
NextMain2 ==
    /\ Histogram /\ app = "main2"
    /\ LET m1 == on_to_cellview_pressed(Mem)
           m2 == on_to_cellview_pressed(m1)
           d3 == add_process_col(m2.df)
       IN /\ SetMem([m2 EXCEPT !.df = d3])
          /\ cell' = CellCrush_init(d3, m2.attrs)
    /\ UNCHANGED <<app, runs>>
    /\ UNCHANGED crop_vars

\* CellImageController.on_previous_cell
PreviousCell2 ==
    /\ cell # None /\ app = "main2"
    /\ cell' = Some(CellImageController_on_previous_cell(cell[1]))
    /\ last' = Op("step")
    /\ UNCHANGED <<csv, app, df, attrs, lower_edit, upper_edit, count, committed, runs>>
    /\ UNCHANGED crop_vars

\* CellImageController.on_reject_cell / on_keep_cell
MarkCell2 ==
    /\ cell # None /\ app = "main2"
    /\ \E keep \in BOOLEAN :
          /\ cell' = Some(CellImageController_mark(cell[1], keep))
          /\ last' = [op |-> "mark", id |-> DisplayedRow, keep |-> keep]
    /\ UNCHANGED <<csv, app, df, attrs, lower_edit, upper_edit, count, committed, runs>>
    /\ UNCHANGED crop_vars

\* CellTinderWidget.show_histogram: Back drops the cell view and its controller
Back ==
    /\ cell # None
    /\ cell' = None
    /\ last' = Op("back")
    /\ UNCHANGED <<csv, app, df, attrs, lower_edit, upper_edit, count, committed, runs>>
    /\ UNCHANGED crop_vars

\* the loader's loads_arrays called for the cell at cell_idx on a loader just
\* constructed or just given its thresholds, in a program that has no cell
\* view of its own, as tests/backend/test_dataloader.py calls it
LoadsArrays ==
    /\ Histogram /\ app \in {"histo", "window"}
    /\ last.op \in {"launch", "commit_window"}
    /\ \E cell_idx \in 0 .. MaxRows - 1 :
          last' = [op |-> "loads_arrays", id |-> cell_idx, keep |-> FALSE]
    /\ UNCHANGED <<csv, app, df, attrs, lower_edit, upper_edit, count, cell, committed, runs>>
    /\ UNCHANGED crop_vars

Blank ==
    /\ app' = "none"
    /\ df' = <<>>
    /\ attrs' = None
    /\ lower_edit' = Tok("")
    /\ upper_edit' = Tok("")
    /\ count' = NoCount
    /\ cell' = None
    /\ committed' = IF committed = None THEN None
                    ELSE Some([committed[1] EXCEPT !.prev = None])
    /\ UNCHANGED runs

\* CellCrush.on_process_cells: merge the flags, save, close the main window
ProcessCells ==
    /\ cell # None
    /\ csv' = save_csv(update_cell_to_process_in_df(df, cell[1].df), csv)
    /\ last' = Op("process")
    /\ Blank
    /\ UNCHANGED crop_vars

\* the window is closed without processing
Quit ==
    /\ Running
    /\ last' = Op("quit")
    /\ Blank
    /\ UNCHANGED csv
    /\ UNCHANGED crop_vars

Next ==
    \/ LaunchTinder \/ LaunchMain2 \/ LaunchHisto \/ LaunchWindow
    \/ TypeThreshold
    \/ NextTinder \/ NextMain2 \/ NextHisto \/ NextWindow
    \/ StepCell \/ MarkCell \/ SliderPreview \/ SliderReleased
    \/ PreviousCell2 \/ MarkCell2
    \/ LoadsArrays
    \/ Back \/ ProcessCells \/ Quit

Spec == Init /\ [][Next]_vars

(***************************************************************************)
(* The histogram panel alone: run_flame_filter, a FlameFilter on its view  *)
(* with typed values, dragged threshold lines and span selections.         *)
(***************************************************************************)
\* where a threshold line is dropped or a span ends: 0.3, 0.654, 0.9
DragValues == {300, 654, 900}

PanelInit ==
    /\ c_in = TestCrop
    /\ c_out = NoCrop
    /\ committed = None
    /\ runs = 1
    /\ app = "flame"
    /\ cell = None
    /\ \E t \in Tables :
          LET m == FlameFilter_init(to_csv(FreshTable(t)))
          IN /\ csv = m.csv
             /\ df = m.df
             /\ attrs = m.attrs
             /\ lower_edit = m.lower_edit
             /\ upper_edit = m.upper_edit
             /\ count = m.count
             /\ last = m.last

DragLower ==
    /\ Histogram
    /\ \E new_lower \in DragValues : SetMem(on_lower_moved(Mem, new_lower))
    /\ UNCHANGED <<app, cell, runs>>
    /\ UNCHANGED crop_vars

DragUpper ==
    /\ Histogram
    /\ \E new_upper \in DragValues : SetMem(on_upper_moved(Mem, new_upper))
    /\ UNCHANGED <<app, cell, runs>>
    /\ UNCHANGED crop_vars

\* the span selector released after a drag from one value to another
SpanSelect ==
    /\ Histogram
    /\ \E a \in DragValues, b \in DragValues :
          SetMem(on_span_selected(Mem, Min(a, b), Max(a, b)))
    /\ UNCHANGED <<app, cell, runs>>
    /\ UNCHANGED crop_vars

\* Next clicked in run_flame_filter: FlameFilter.on_next_pressed alone
PanelCommit ==
    /\ Histogram
    /\ SetMem(on_next_pressed(Mem))
    /\ UNCHANGED <<app, cell, runs>>
    /\ UNCHANGED crop_vars

PanelNext == TypeThreshold \/ DragLower \/ DragUpper \/ SpanSelect \/ PanelCommit

SpecPanel == PanelInit /\ [][PanelNext]_vars

(***************************************************************************)
(* The crop engine alone: one request, cropped once.                       *)
(***************************************************************************)
CropInit ==
    /\ c_in \in CropInputs
    /\ c_out = NoCrop
    /\ csv = to_csv(FreshTable(SampleRatios))
    /\ app = "none"
    /\ df = <<>>
    /\ attrs = None
    /\ lower_edit = Tok("")
    /\ upper_edit = Tok("")
    /\ count = NoCount
    /\ cell = None
    /\ committed = None
    /\ runs = 0
    /\ last = Op("init")

\* CellImageSet._crop_array for an image frame (cell_mask_value = None)
CropImage ==
    /\ c_out = NoCrop
    /\ c_out' = [kind |-> "img",
                 arr |-> box_array(SourceImage(c_in.h, c_in.w),
                                   c_in.cy2, c_in.cx2, c_in.size, None)]
    /\ UNCHANGED c_in
    /\ UNCHANGED table_vars

\* CellImageSet._crop_array for a mask frame (cell_mask_value = the cell's label)
CropMask ==
    /\ c_out = NoCrop
    /\ c_out' = [kind |-> "mask",
                 arr |-> box_array(SourceMask(c_in.h, c_in.w),
                                   c_in.cy2, c_in.cx2, c_in.size, Some(c_in.label))]
    /\ UNCHANGED c_in
    /\ UNCHANGED table_vars

\* crop.crop_array on the same request
CropArray ==
    /\ c_out = NoCrop
    /\ c_out' = [kind |-> "crop",
                 arr |-> crop_array(SourceImage(c_in.h, c_in.w),
                                    c_in.cx2, c_in.cy2, c_in.size)]
    /\ UNCHANGED c_in
    /\ UNCHANGED table_vars

CropNext == CropImage \/ CropMask \/ CropArray

SpecCrop == CropInit /\ [][CropNext]_vars

(***************************************************************************)
(* The image set alone: one cell, its frame files, built once.             *)
(***************************************************************************)
\* the frame files that may exist, and the base image path itself
FrameFiles ==
    {FramePath(pre, f) : pre \in {pre_img_path, pre_mask_path}, f \in 1 .. MaxFrames}
    \cup {pre_img_path}

SetInputs ==
    { [h |-> MaxDim, w |-> MaxDim, size |-> s, cy2 |-> y, cx2 |-> 2, label |-> 1,
       n_frames |-> n, fs |-> fs] :
        s \in 1 .. MaxSize, y \in Coords(MaxDim), n \in 1 .. MaxFrames,
        fs \in SUBSET FrameFiles }

SetInit ==
    /\ c_in \in SetInputs
    /\ c_out = NoCrop
    /\ csv = to_csv(FreshTable(SampleRatios))
    /\ app = "none"
    /\ df = <<>>
    /\ attrs = None
    /\ lower_edit = Tok("")
    /\ upper_edit = Tok("")
    /\ count = NoCount
    /\ cell = None
    /\ committed = None
    /\ runs = 0
    /\ last = Op("init")

\* CellImageSet(cell_centroid, pre_img_path, pre_mask_path, cell_mask_value,
\* n_frames, box_size)
BuildImageSet ==
    /\ c_out = NoCrop
    /\ c_out' = CellImageSet_init(c_in)
    /\ UNCHANGED c_in
    /\ UNCHANGED table_vars

\* CellImageSet._build_file_path called alone, as test_build_file_path_error does
BuildFilePath ==
    /\ c_out = NoCrop
    /\ \E pre \in {pre_img_path, pre_mask_path}, frame \in 1 .. MaxFrames :
          c_out' = [kind |-> "path", pre |-> pre, frame |-> frame,
                    result |-> build_file_path(c_in.fs, pre, frame), reads |-> <<>>]
    /\ UNCHANGED c_in
    /\ UNCHANGED table_vars

SetNext == BuildImageSet \/ BuildFilePath

SpecSet == SetInit /\ [][SetNext]_vars

(***************************************************************************)
(* Properties of the crop.                                                 *)
(***************************************************************************)
\* the requested window of the request in c_in
ReqYMin == WindowMin(c_in.cy2, c_in.size)
ReqYMax == ReqYMin + c_in.size
ReqXMin == WindowMin(c_in.cx2, c_in.size)
ReqXMax == ReqXMin + c_in.size

Cropped == c_out.kind # "none"
\* a crop without mask isolation
PlainCrop == c_out.kind \in {"img", "crop"}

\* the window shares at least one pixel with the source on both axes
WindowOverlaps ==
    /\ ReqYMax > 0 /\ ReqYMin < c_in.h
    /\ ReqXMax > 0 /\ ReqXMin < c_in.w

ShapeIsSize == c_out.arr.nr = c_in.size /\ c_out.arr.nc = c_in.size

\* C1: every crop, wherever the centroid lies, has shape exactly (size, size).
C1_ShapeAlwaysSize == Cropped => ShapeIsSize

\* C6: a window entirely outside the source gives a (size, size) crop whose
\* every pixel is 0.
C6_OutsideAllZero ==
    (PlainCrop /\ ~WindowOverlaps) =>
        /\ ShapeIsSize
        /\ \A p \in DOMAIN c_out.arr.px : c_out.arr.px[p] = 0

\* the pixel the claim prescribes at (r, c) of an image crop
ExpectedPixel(r, c) ==
    LET y == ReqYMin + r
        x == ReqXMin + c
    IN IF y >= 0 /\ y < c_in.h /\ x >= 0 /\ x < c_in.w
       THEN y * c_in.w + x + 1
       ELSE 0

\* C7: when the window overlaps the source, the crop has shape (size, size) and
\* pixel (r, c) is source[y_min + r, x_min + c] inside the source and 0 outside;
\* for the 10x10 source, centroid (2, 2), size 8 the top two rows and left two
\* columns are 0 and the rest is source[0:6, 0:6].
C7_OverlapPixels ==
    /\ (PlainCrop /\ WindowOverlaps) =>
          /\ ShapeIsSize
          /\ DOMAIN c_out.arr.px = (0 .. c_in.size - 1) \X (0 .. c_in.size - 1)
          /\ \A p \in DOMAIN c_out.arr.px :
                 c_out.arr.px[p] = ExpectedPixel(p[1], p[2])
    /\ (PlainCrop /\ c_in = TestCrop) =>
          \A r \in 0 .. 7, c \in 0 .. 7 :
             c_out.arr.px[<<r, c>>] =
                IF r < 2 \/ c < 2 THEN 0 ELSE 10 * (r - 2) + (c - 2) + 1

\* C7 witness: the test scenario cropped, padded at the top left and holding
\* source[0, 0] at (2, 2).
C7_Witness ==
    /\ c_in = TestCrop
    /\ c_out.kind = "img"
    /\ c_out.arr.px[<<0, 0>>] = 0
    /\ c_out.arr.px[<<2, 2>>] = 1

(***************************************************************************)
(* Properties of the threshold table.                                      *)
(***************************************************************************)
\* a window was committed in the running program
CommittedThisRun == Running /\ committed # None /\ committed[1].run = runs

\* a commit made by FlameFilter.on_next_pressed or on_to_cellview_pressed
CommittedByController == CommittedThisRun /\ app \in {"tinder", "main2", "histo"}

\* the column name the committed window is stored under
CommittedName ==
    <<FormatFloat(committed[1].lower), Tok("<"), Tok("x"), Tok("<"),
      committed[1].upper_str>>

\* the rows whose ratio lies strictly inside / on the border of the committed window
StrictlyInside(r) == committed[1].lower < Ratio(df)[r] /\ Ratio(df)[r] < committed[1].upper
OnBorder(r) == Ratio(df)[r] = committed[1].lower \/ Ratio(df)[r] = committed[1].upper

\* the rows flagged True in the active threshold column
ActiveRows ==
    {r \in 1 .. NRows(df) : Column(df, attrs[1].column_thresholds).vals[r]}

C3_OneThresholdColumn ==
    CommittedThisRun =>
        /\ ThresholdCols(df) = <<CommittedName>>
        /\ ThresholdCols(read_csv(csv)) = <<CommittedName>>

StoredKept ==
    LET stored == read_csv(csv)
    IN IF HasColumn(stored, ProcessName)
       THEN {r \in 1 .. NRows(stored) : Column(stored, ProcessName).vals[r]}
       ELSE {}

\* C5: the stored table changes only on commit_window and on commit(); marks,
\* navigation, counts and the slider never write, and a flag set by a mark is
\* not stored before commit(), also when a later commit_window saves the table.
C5_WritesOnlyOnCommit ==
    [][/\ (csv' # csv => last'.op \in {"commit_window", "process"})
       /\ (last'.op # "process" => StoredKept' = StoredKept)]_vars

\* C5 witness: a cell was marked kept in a table whose stored copy already has
\* the kept column, and the stored flag of that row is still False.
C5_Witness ==
    /\ cell # None
    /\ last.op = "mark" /\ last.keep
    /\ HasColumn(read_csv(csv), ProcessName)
    /\ last.id \notin StoredKept

\* C8: commit_window(lower, upper) adds the boolean column
\* "{lower} < x < {upper}", true exactly on the rows with lower < ratio < upper,
\* and makes it the active threshold column.
C8_CommitColumn ==
    (CommittedByController /\ last.op = "commit_window") =>
        /\ HasColumn(df, CommittedName)
        /\ Column(df, CommittedName).dtype = "bool"
        /\ \A r \in 1 .. NRows(df) :
              Column(df, CommittedName).vals[r] <=> StrictlyInside(r)
        /\ attrs # None
        /\ attrs[1].column_thresholds = CommittedName

\* C8 witness: a committed window with a row inside it and a row on its border
\* that the column leaves out.
C8_Witness ==
    /\ CommittedByController /\ last.op = "commit_window"
    /\ \E r \in 1 .. NRows(df) : Column(df, CommittedName).vals[r]
    /\ \E r \in 1 .. NRows(df) : OnBorder(r) /\ ~Column(df, CommittedName).vals[r]

\* C9: get_count(lower, upper) is the number of rows with
\* lower <= ratio <= upper, both ends inclusive; rows_in_range returns exactly
\* those rows in table order, and counting leaves the table as it was.
C9_CountInclusive ==
    /\ [](Running =>
            LET in == {r \in 1 .. NRows(df) :
                          count.lower <= Ratio(df)[r] /\ Ratio(df)[r] <= count.upper}
                rows == filter_data(df, count.lower, count.upper, RatioName)
            IN /\ count.n = Cardinality(in)
               /\ SeqRange(rows) = in
               /\ \A j, k \in 1 .. Len(rows) : j < k => rows[j] < rows[k])
    /\ [][last'.op = "count" => (df' = df /\ csv' = csv)]_vars

\* C9 witness: a count just taken that includes a row whose ratio equals the
\* upper bound and leaves another row out.
C9_Witness ==
    /\ last.op = "count"
    /\ count.n = 2
    /\ NRows(df) = 3
    /\ \E r \in 1 .. NRows(df) : Ratio(df)[r] = count.upper

C10_Scenario ==
    /\ cell # None /\ Ratio(df) = SampleRatios
    /\ committed = Window(300, 900)

Reloads == app = "none" /\ app' \in {"tinder", "main2"}

\* the stored table was last committed by FlameFilter.on_next_pressed or
\* on_to_cellview_pressed
StoredByController ==
    committed # None /\ committed[1].app \in {"tinder", "main2", "histo"}

StoredThresholdCols == ThresholdCols(read_csv(csv))

\* the name has the form "<float> < x < <float>"
NameIsWindow(col) ==
    /\ Len(col) = 5
    /\ IsLiteral(col[1]) /\ col[2] = Tok("<") /\ col[3] = Tok("x") /\ col[4] = Tok("<")
    /\ IsLiteral(col[5])

SubsetRows == {cell[1].df[k].id : k \in 1 .. Len(cell[1].df)}

\* the rows of the whole table whose kept flag is true, the marks of the
\* running session included
KeptInTable ==
    {r \in 1 .. NRows(df) :
        IF r \in SubsetRows
        THEN \E k \in 1 .. Len(cell[1].df) : cell[1].df[k].id = r /\ cell[1].df[k].process
        ELSE Column(df, ProcessName).vals[r]}

\* C13: selected_count() is the number of rows with kept = true in the whole
\* table, rows outside the active subset included.
C13_SelectedCountWholeTable ==
    cell # None => selected_count(cell[1]) = Cardinality(KeptInTable)

\* C14: mark(i, b) sets the kept flag of the row at position i of the active
\* subset to b and changes nothing else: the rows of the subset, their order
\* and every other kept flag stay, in the controller and in the table.
C14_MarkFrame ==
    [][(last'.op = "mark") =>
          LET i == cell[1].current_idx + 1
          IN /\ cell'[1].df = [cell[1].df EXCEPT ![i].process = last'.keep]
             /\ [k \in 1 .. Len(cell'[1].df) |-> cell'[1].df[k].id]
                   = [k \in 1 .. Len(cell[1].df) |-> cell[1].df[k].id]
             /\ df' = df /\ attrs' = attrs /\ csv' = csv]_vars

\* C14 witness: the second cell of the subset was rejected while the first one
\* is kept.
C14_Witness ==
    /\ cell # None /\ last.op = "mark" /\ ~last.keep
    /\ Len(cell[1].df) >= 2
    /\ cell[1].df[2].id = last.id
    /\ cell[1].df[1].process /\ ~cell[1].df[2].process

\* the step enters the cell view: the controller calls add_process_col
EntersCellView ==
    /\ app \in {"tinder", "main2"} /\ cell = None
    /\ last'.op = "commit_window"

C16_LoadsArraysNeedsWindow ==
    [][(last'.op = "loads_arrays" /\ attrs = None) =>
          /\ loads_arrays(df, attrs, last'.id).raised = "ValueError"
          /\ loads_arrays(df, attrs, last'.id).files = {}
          /\ df' = df /\ attrs' = attrs /\ csv' = csv /\ cell' = cell
          /\ committed' = committed]_vars

\* C16 witness: loads_arrays was called on a loader with no thresholds set.
C16_Witness ==
    /\ last.op = "loads_arrays" /\ attrs = None /\ committed = None
    /\ last.id < NRows(df)

\* the row loads_arrays uses for index 0 once update_thresholds(min, max,
\* 'ratio') has put every row in the window, as test_loads_arrays_pre_file_path
\* sets it up
LoadedFirstOfAll ==
    loads_arrays(df, update_thresholds(default_lower(df), default_upper(df), RatioName), 0)

\* C17: loads_arrays(index) is built from the row at position index of the
\* ratio-descending active subset (index 0 is the row with the highest ratio),
\* its files named after that row's fov_ID, and it is the row whose ratio and
\* kept flag the controller shows and marks at that index.
C17_LoadsRowOfSortedSubset ==
    /\ (Running /\ NRows(df) > 0) =>
          LoadedFirstOfAll =
             Loaded("none", SortByRatioDesc(Ratio(df), 1 .. NRows(df))[1])
    /\ cell # None =>
          \A k \in 1 .. Len(cell[1].df) :
             loads_arrays(df, attrs, k - 1) = Loaded("none", cell[1].df[k].id)

\* C18: navigation over a non-empty frozen subset wraps at both ends (previous
\* from index 0 goes to the last row, next from the last row to index 0, any
\* other step moves the index by exactly one) and never re-queries or re-sorts
\* the subset.
C18_NavigationWraps ==
    [][(cell # None /\ last'.op = "step") =>
          LET n == Len(cell[1].df)
              i == cell[1].current_idx
          IN /\ cell' # None
             /\ cell'[1].df = cell[1].df
             /\ cell'[1].current_idx \in {(i + 1) % n, (i + n - 1) % n}
             /\ df' = df /\ attrs' = attrs]_vars

\* the rows of the full table whose ratio lies strictly inside a window
RowsInside(w) == {r \in 1 .. NRows(df) : w.lower < Ratio(df)[r] /\ Ratio(df)[r] < w.upper}

InWindow(p) == p[1] \in 0 .. c_in.size - 1 /\ p[2] \in 0 .. c_in.size - 1
SourcePos(p) == <<ReqYMin + p[1], ReqXMin + p[2]>>
InSource(q) == q[1] \in 0 .. c_in.h - 1 /\ q[2] \in 0 .. c_in.w - 1

\* C20: every pixel of a mask crop is 0 or mask_label_value, and it is
\* mask_label_value exactly at the in-window positions whose source mask pixel
\* is mask_label_value; image crops are not isolated, their in-bounds pixels
\* are the source pixels.
C20_MaskIsolated ==
    /\ c_out.kind = "mask" =>
          LET mask == SourceMask(c_in.h, c_in.w)
              px == c_out.arr.px
          IN /\ \A p \in DOMAIN px : px[p] \in {0, c_in.label}
             /\ \A p \in DOMAIN px :
                   px[p] = c_in.label =>
                      /\ InWindow(p) /\ InSource(SourcePos(p))
                      /\ mask.px[SourcePos(p)] = c_in.label
             /\ \A p \in (0 .. c_in.size - 1) \X (0 .. c_in.size - 1) :
                   (InSource(SourcePos(p)) /\ mask.px[SourcePos(p)] = c_in.label) =>
                      (p \in DOMAIN px /\ px[p] = c_in.label)
    /\ c_out.kind = "img" =>
          LET image == SourceImage(c_in.h, c_in.w)
              px == c_out.arr.px
          IN \A p \in (0 .. c_in.size - 1) \X (0 .. c_in.size - 1) :
                InSource(SourcePos(p)) => (p \in DOMAIN px /\ px[p] = image.px[SourcePos(p)])

\* the same statement for windows that overlap the source
C20_MaskIsolatedOverlap == WindowOverlaps => C20_MaskIsolated

(***************************************************************************)
(* Properties of the crop window.                                          *)
(***************************************************************************)
\* floor(v) of a float given in halves
FloorOfHalves(v2) == v2 \div 2

\* the window the claim prescribes: floor(centroid) - size // 2
FloorYMin == FloorOfHalves(c_in.cy2) - c_in.size \div 2
FloorXMin == FloorOfHalves(c_in.cx2) - c_in.size \div 2

\* C24: the crop window is half = size // 2, x_min = floor(x) - half,
\* x_max = x_min + size, y_min = floor(y) - half, y_max = y_min + size for every
\* centroid, fractional and negative ones included (floor, not truncation);
\* for even size it has half pixels before the centroid pixel and half - 1
\* after it.
C24_WindowByFloor ==
    Cropped =>
        /\ ReqYMin = FloorYMin /\ ReqXMin = FloorXMin
        /\ ReqYMax = FloorYMin + c_in.size /\ ReqXMax = FloorXMin + c_in.size
        /\ c_out.kind = "img" =>
              c_out.arr = pad_array(SourceImage(c_in.h, c_in.w), FloorXMin,
                                    FloorXMin + c_in.size, FloorYMin,
                                    FloorYMin + c_in.size, None)
        /\ c_in.size % 2 = 0 =>
              /\ FloorOfHalves(c_in.cy2) - ReqYMin = c_in.size \div 2
              /\ ReqYMax - 1 - FloorOfHalves(c_in.cy2) = c_in.size \div 2 - 1

\* the same statement for centroids that are not negative
C24_WindowByFloorNonNegative == (c_in.cy2 >= 0 /\ c_in.cx2 >= 0) => C24_WindowByFloor

(***************************************************************************)
(* The cell view of CellTinderWidget on the sample table when frame files  *)
(* of some rows are missing.                                               *)
(***************************************************************************)
\* the rows whose files are missing: none, the cell of ratio 0.5, or the cell
\* of ratio 0.8
MissingSets == {{}, {2}, {3}}

ViewInit ==
    /\ c_in \in {[missing |-> rows] : rows \in MissingSets}
    /\ c_out = NoCrop
    /\ csv = to_csv(SampleTable)
    /\ app = "none"
    /\ df = <<>>
    /\ attrs = None
    /\ lower_edit = Tok("")
    /\ upper_edit = Tok("")
    /\ count = NoCount
    /\ cell = None
    /\ committed = None
    /\ runs = 0
    /\ last = Op("init")

ViewNext ==
    \/ LaunchTinder
    \/ TypeThreshold
    \/ NextTinder
    \/ StepCell
    \/ MarkCell
    \/ SliderReleased
    \/ Back
    \/ ProcessCells

SpecView == ViewInit /\ [][ViewNext]_vars

(***************************************************************************)
(* Properties of the image set.                                            *)
(***************************************************************************)
\* the files a complete construction reads, in the order it reads them
AllFrameReads ==
    [k \in 1 .. 2 * c_in.n_frames |->
        IF k <= c_in.n_frames THEN FramePath(pre_img_path, k)
        ELSE FramePath(pre_mask_path, k - c_in.n_frames)]

\* C23: _build_file_path returns '{stem}_{frame}{suffix}' in the base path's
\* own directory when that file exists and fails with FileNotFoundError when it
\* does not; it never returns a path that does not exist and reads no file.
C23_ResolveChecksExistence ==
    c_out.kind = "path" =>
        LET expected == [dir |-> c_out.pre.dir, stem |-> c_out.pre.stem,
                         frame |-> c_out.frame, suffix |-> c_out.pre.suffix]
        IN /\ expected \in c_in.fs =>
                 (c_out.result.raised = "none" /\ c_out.result.path = expected)
           /\ expected \notin c_in.fs => c_out.result.raised = "FileNotFoundError"
           /\ c_out.result.raised = "none" => c_out.result.path \in c_in.fs
           /\ c_out.reads = <<>>

\* C23 witness: the frame file is missing while the base path itself and the
\* other frame of the same base exist.
C23_Witness ==
    /\ c_out.kind = "path" /\ c_out.pre = pre_img_path /\ c_out.frame = 1
    /\ c_out.result.raised = "FileNotFoundError"
    /\ pre_img_path \in c_in.fs
    /\ FramePath(pre_img_path, 2) \in c_in.fs

\* C21: a successfully built CellImageSet has imgs and masks with exactly the
\* keys 1..n_frames, the same keys in both, every value of shape
\* (box_size, box_size), and every frame was read during construction.
C21_SetComplete ==
    c_out.kind = "set" =>
        /\ DOMAIN c_out.imgs = 1 .. c_in.n_frames
        /\ DOMAIN c_out.masks = DOMAIN c_out.imgs
        /\ \A f \in 1 .. c_in.n_frames :
              /\ c_out.imgs[f].nr = c_in.size /\ c_out.imgs[f].nc = c_in.size
              /\ c_out.masks[f].nr = c_in.size /\ c_out.masks[f].nc = c_in.size
        /\ c_out.reads = AllFrameReads

\* the same statement for windows that overlap the source
C21_SetCompleteOverlap == WindowOverlaps => C21_SetComplete

(***************************************************************************)
(* Properties of the threshold inputs.                                     *)
(***************************************************************************)
\* the window was counted after a user input
CountedFromInput == last.op \in {"count", "drag_lower", "drag_upper", "span"}

\* what get_threshold_values reads from a text before the clamp
ReadBound(t, dflt) == IF CanParseFloat(t) THEN ParseFloat(t) ELSE Round2(dflt)

\* the texts a threshold edit can hold
EditTexts == TypedTexts \cup {lower_edit, upper_edit} \cup {FormatFloat2(v) : v \in DragValues}

\* C25: every window used for counting or committed has lower <= upper: input
\* that would give lower >= upper has the upper bound clamped to lower + 0.01
\* with lower kept, and a lower line dragged to or past the upper bound is set
\* to upper - 0.01, before the window is counted or committed.
C25_WindowOrdered ==
    /\ [](/\ CountedFromInput => count.lower <= count.upper
          /\ committed # None => committed[1].lower <= committed[1].upper
          /\ \A le \in EditTexts, ue \in EditTexts :
                LET tv == get_threshold_values(le, ue, default_lower(df), default_upper(df))
                    l0 == ReadBound(le, default_lower(df))
                    u0 == ReadBound(ue, default_upper(df))
                IN /\ tv.lower = l0
                   /\ tv.upper = IF l0 >= u0 THEN l0 + Epsilon ELSE u0)
    /\ [][/\ (last'.op = "drag_lower" /\ last'.id >= ParseFloat(upper_edit)) =>
               /\ count'.upper = ParseFloat(upper_edit)
               /\ count'.lower = Round2(ParseFloat(upper_edit) - Epsilon)
          /\ (last'.op = "drag_upper" /\ last'.id <= ParseFloat(lower_edit)) =>
               /\ count'.lower = ParseFloat(lower_edit)
               /\ count'.upper = Round2(ParseFloat(lower_edit) + Epsilon)
          /\ last'.op = "commit_window" =>
               committed'[1].lower < committed'[1].upper]_vars

\* C25 witness: 0.9 typed as lower bound under an upper bound of 0.8, counted
\* and committed as the window 0.9 .. 0.91.
C25_Witness ==
    /\ last.op = "commit_window"
    /\ lower_edit = FormatFloat(900)
    /\ committed[1].lower = 900 /\ committed[1].upper = 900 + Epsilon
    /\ count.lower = 900 /\ count.upper = 900 + Epsilon
    /\ default_upper(df) = 800

(***************************************************************************)
(* Properties of the rows.                                                 *)
(***************************************************************************)
\* the columns of a table that are neither the kept flag nor a threshold column
DataColumns(d) ==
    LET data(c) == c.name # ProcessName /\ ~IsThresholdName(c.name) IN SelectSeq(d, data)

FlaggedRows(d, col_name) ==
    LET ids == [r \in 1 .. NRows(d) |-> r]
        flagged(r) == Column(d, col_name).vals[r]
    IN SelectSeq(ids, flagged)

\* loads_arrays ran after the histogram controller committed a window
LoadsAfterHistoCommit ==
    /\ app = "histo" /\ last.op = "loads_arrays"
    /\ committed # None /\ attrs # None
    /\ IsThresholdName(attrs[1].column_thresholds)
    /\ HasColumn(df, attrs[1].column_thresholds)

\* C27: after a window is committed through the histogram controller,
\* loads_arrays selects as positive cells exactly the rows whose boolean
\* threshold column is true, whatever the numeric values of the bounds.
C27_LoadsSelectsFlagged ==
    LoadsAfterHistoCommit =>
        /\ committed[1].lower < committed[1].upper
        /\ filter_data(df, attrs[1].lower, attrs[1].upper, attrs[1].column_thresholds)
              = FlaggedRows(df, attrs[1].column_thresholds)

\* the window of a committed histogram controller is ordered and is the one
\* update_thresholds was given
C27_WindowRecorded ==
    LoadsAfterHistoCommit =>
        /\ committed[1].lower < committed[1].upper
        /\ attrs[1].lower = committed[1].lower /\ attrs[1].upper = committed[1].upper
        /\ ParseFloat(attrs[1].column_thresholds[1]) = committed[1].lower
        /\ ParseFloat(attrs[1].column_thresholds[5]) = committed[1].upper

(***************************************************************************)
(* Properties of the displayed cell.                                       *)
(***************************************************************************)
\* C28: whenever keep or reject is applied, the image set on display
\* (current_cell) was loaded for the row at current_idx, after any
\* interleaving of steps, slider previews and slider releases.
C28_MarkOnDisplayedCell ==
    (cell # None /\ app = "tinder" /\ last.op = "mark") =>
        cell[1].current_cell = cell[1].current_idx

\* every handler that loads a cell leaves the displayed image set on the row
\* at current_idx
C28_LoadedAfterLoad ==
    (cell # None /\ app = "tinder" /\ last.op \in {"step", "slider", "cell_view"}) =>
        cell[1].current_cell = cell[1].current_idx

(***************************************************************************)
(* Properties of the double commit of one click on Next.                   *)
(***************************************************************************)
\* C29: committing the same window twice in a row, as one click on Next does
\* in CellTinderWidget, leaves the table, its single threshold column, the
\* active window and the stored file exactly as after committing it once, and
\* the commit has completed before the cell view reads the active subset.
C29_CommitTwiceIsOnce ==
    [][(Histogram /\ app = "tinder" /\ last'.op = "commit_window") =>
          LET once == on_next_pressed(Mem)
          IN /\ df' = add_process_col(once.df)
             /\ Len(ThresholdCols(df')) = 1
             /\ attrs' = once.attrs
             /\ committed' = once.committed
             /\ csv' = once.csv
             /\ cell' = CellCrush_init(df', attrs')]_vars

(***************************************************************************)
(* Properties of the current index.                                        *)
(***************************************************************************)
\* the cell view was just opened on the committed window
CellViewOpened ==
    /\ app \in {"tinder", "main2"} /\ last.op = "commit_window"
    /\ attrs # None /\ HasColumn(df, ProcessName)

\* C30: the current index is always a valid position of the active subset,
\* and when the committed window selects no rows no step indexes a
\* non-existent row or divides by the subset length of zero.
C30_IndexValid ==
    /\ cell # None =>
          /\ Len(cell[1].df) > 0
          /\ cell[1].current_idx \in 0 .. Len(cell[1].df) - 1
    /\ CellViewOpened => gather_info(pos_df(df, attrs), 0).raised = "none"

\* with a controller in place the current index is a position of its subset
\* and the subset is not empty
C30_IndexInRange ==
    cell # None =>
        /\ Len(cell[1].df) > 0
        /\ cell[1].current_idx \in 0 .. Len(cell[1].df) - 1

(***************************************************************************)
(* Properties of a load that fails.                                        *)
(***************************************************************************)
\* the files of some frame of the image set are missing
SomeFrameMissing == \E k \in 1 .. 2 * c_in.n_frames : AllFrameReads[k] \notin c_in.fs

\* building an image set with a frame file missing fails with
\* FileNotFoundError and leaves no set; with every file present it succeeds
C22_NoPartialSet ==
    c_out.kind \in {"set", "raised"} =>
        /\ SomeFrameMissing <=> c_out.kind = "raised"
        /\ c_out.kind = "raised" =>
              /\ c_out.raised = "FileNotFoundError"
              /\ DOMAIN c_out = {"kind", "raised", "reads"}

\* C22: if a frame file of a cell is missing, building its image set fails with
\* FileNotFound and returns no partial set, and the failure is confined to
\* that cell: the table, the active subset, the kept flags and the stored file
\* are unchanged, and loading or marking other cells afterwards still works.
C22_FailureConfined ==
    [][last'.op = "load_error" =>
          /\ cell' # None
          /\ cell # None =>
                /\ cell'[1].df = cell[1].df
                /\ df' = df /\ csv' = csv /\ attrs' = attrs]_vars

\* a load that fails in a cell view that is open leaves the table, the subset,
\* the kept flags and the stored file as they were
C22_StepFailureFrame ==
    [][(last'.op = "load_error" /\ cell # None) =>
          /\ cell' # None
          /\ cell'[1].df = cell[1].df
          /\ df' = df /\ csv' = csv /\ attrs' = attrs]_vars

=============================================================================
